---- MODULE Spec2Model ----
(***************************************************************************)
(* A model of aitlas' BaseModel (src/aitlas/base/models.py): the training  *)
(* engine fit, the checkpoint store save_model / load_model, evaluate, and *)
(* the RunningMetrics accumulator the engine feeds.                        *)
(*                                                                         *)
(* Every public operation is one task run (aitlas.tasks): a process that   *)
(* constructs the model, calls fit or evaluate once and ends.  Its memory  *)
(* is the model weights, the optimizer state and the number of             *)
(* DataParallel wrappers around self.model; the disk is the model          *)
(* directory.  A process can be interrupted at any point: the disk stays,  *)
(* the memory is lost.                                                     *)
(***************************************************************************)
EXTENDS Integers, Sequences, FiniteSets, TLC

\* ------------------------------------------------------------------ bounds
MaxEpochs == 3
MaxFiles == 3
MaxInterrupts == 1
MaxBatch == 2
MaxSamples == 3
MaxDim == 2
MaxLoader == 2
MaxEngineEpochs == 2
MaxSessionEpochs == 2

\* self.num_classes, from the model's configuration.
NumClasses == 2

\* ------------------------------------------------------------------ values
\* Python's None, as a run_id.
None == "None"

\* What a path names on disk.  Absent: no such file.  Partial: a file whose
\* writer was interrupted (or is still writing).
Absent == [absent |-> TRUE]
Partial == [partial |-> TRUE]

\* Paths a caller can pass as resume_model / model_path.
NoPath == [kind |-> "none", i |-> 0]
LatestPath == [kind |-> "latest", i |-> 0]
MissingPath == [kind |-> "missing", i |-> 0]
WeightsPath == [kind |-> "weights", i |-> 0]
TsPath(i) == [kind |-> "ts", i |-> i]

\* self.model.state_dict(): the weights under their parameter names.  Each
\* nn.DataParallel wrapper prefixes every name with "module.", so the names
\* are known by the number of wrappers (depth).
StateDict(w, wr) == [depth |-> wr, w |-> w]

\* A weights-only checkpoint: a bare state dict of an unwrapped model.
WeightsOnly == StateDict(7, 0)

VARIABLES
    deviceCount,   \* torch.cuda.device_count(), fixed for the machine
    weights,       \* self.model's parameters
    optimizer,     \* self.optimizer's state
    wrap,          \* DataParallel wrappers around self.model
    files,         \* the timestamped checkpoint files, in the order written
    latest,        \* <model_directory>/checkpoint.pth.tar
    dirs,          \* the run directories under model_directory
    saveArgs,      \* history: what each save_model call that wrote files[i] was given
    aborted,       \* history: a save_model was interrupted after it began writing
    torn,          \* history: a copyfile onto latest was itself interrupted
    interrupts,    \* history: interruptions so far
    pc,            \* where the running public operation is
    fr,            \* its arguments and locals
    obs,           \* what it has done so far
    matrix,        \* RunningMetrics' confusion matrix
    seen,          \* history: the inputs of the updates since the last reset
    ev,            \* evaluate_model's handling of one batch
    ex,            \* predict_output_per_batch: the generator's state
    eng,           \* the engine at the grain of batches: prepare, fit's steps, predict
    ses            \* one model instance used for several operations: its metrics passes

vars == <<deviceCount, weights, optimizer, wrap, files, latest, dirs, saveArgs,
          aborted, torn, interrupts, pc, fr, obs, matrix, seen, ev, ex, eng, ses>>
memVars == <<weights, optimizer, wrap>>
diskVars == <<files, latest, dirs, saveArgs, aborted, torn, interrupts>>
rmVars == <<matrix, seen>>
stepVars == <<ev, ex, eng, ses>>

\* ------------------------------------------------------------------ frames
EmptyFrame ==
    [op |-> "none", epochs |-> 0, save_epochs |-> 0, path |-> NoPath,
     run_id |-> None, start |-> 0, start_epoch |-> 0,
     next |-> 0, epoch |-> 0, loss |-> 0, lossBound |-> FALSE,
     s_epoch |-> 0, s_ret |-> "none", s_kind |-> "none", s_prev |-> Absent,
     lastPeriodic |-> -1]

EmptyObs ==
    [n_train |-> 0, n_eval |-> 0, n_alloc |-> 0, n_writes |-> 0,
     sink |-> "unopened", sinkKey |-> None, err |-> "none"]

\* Before evaluate_model has a batch, before the generator exists, and before
\* the model instance has been prepared.
NoBatch == [pc |-> "idle"]
NoGenerator ==
    [pc |-> "none", loader |-> <<>>, pos |-> 0, yielded |-> <<>>, prevGrad |-> TRUE,
     consumer |-> "none"]
NoSink == [state |-> "unopened", opens |-> 0, closes |-> 0, records |-> 0, late |-> 0]
NoConfig == [omitted |-> "none", sched |-> FALSE, optimizer |-> "single", mapping |-> FALSE]
NoCall ==
    [op |-> "none", epochs |-> 0, start_epoch |-> 0, save_epochs |-> 1, val |-> FALSE,
     loader |-> <<>>]
\* nn.Module is constructed in training mode; autograd is enabled by default.
NoEngine ==
    [pc |-> "new", err |-> "none", cfg |-> NoConfig, mode |-> "train", grad |-> TRUE,
     call |-> NoCall, epoch |-> 0, next |-> 0, i |-> 0, bt |-> <<>>, trace |-> <<>>,
     passes |-> 0, batches |-> 0, checkpoints |-> 0, scheds |-> 0, sink |-> NoSink,
     lossBound |-> FALSE]

ZeroMatrix == [c \in (1..NumClasses) \X (1..NumClasses) |-> 0]
NothingSeen == [samples |-> 0, pairs |-> 0, onehot |-> TRUE]

\* No scores have been emitted yet.
NoEmission == [tag |-> "none", epoch |-> 0, exact |-> TRUE]
\* A model instance on which no operation runs.
NoSession ==
    [pc |-> "ready", op |-> "none", epochs |-> 0, epoch |-> 0, val |-> FALSE,
     tag |-> "none", n |-> 0, own |-> ZeroMatrix, last |-> NoEmission]

\* ------------------------------------------------------------------ disk
ReadFile(p) ==
    CASE p.kind = "latest" -> latest
      [] p.kind = "weights" -> WeightsOnly
      [] p.kind = "ts" -> IF p.i \in 1..Len(files) THEN files[p.i] ELSE Absent
      [] OTHER -> Absent

Paths == {LatestPath, MissingPath, WeightsPath} \cup {TsPath(i) : i \in 1..Len(files)}

\* ------------------------------------------------------------------ device
\* allocate_device: one more DataParallel wrapper when several devices are visible.
AllocateDevice(wr, dc) == IF dc > 1 THEN wr + 1 ELSE wr

\* ------------------------------------------------------------------ checkpoint store
\* The dict save_model hands to torch.save.
SaveRecord(epoch, sd, opt, loss, start, run_id) ==
    [epoch |-> epoch + 1, state_dict |-> sd, optimizer |-> opt,
     loss |-> loss, start |-> start, id |-> run_id]

IsFull(c) == "state_dict" \in DOMAIN c

\* A load_model that returns an empty run id for every checkpoint.
LoadedTupleAnonymous(c) ==
    IF IsFull(c)
    THEN [start_epoch |-> c.epoch, loss |-> c.loss, start |-> c.start, run_id |-> ""]
    ELSE [start_epoch |-> 1, loss |-> 0, start |-> 0, run_id |-> ""]

\* What load_model returns for a checkpoint.
LoadedTuple(c) ==
    IF IsFull(c)
    THEN [start_epoch |-> c.epoch, loss |-> c.loss, start |-> c.start, run_id |-> c.id]
    ELSE [start_epoch |-> 1, loss |-> 0, start |-> 0, run_id |-> ""]

NoTuple == [start_epoch |-> 0, loss |-> 0, start |-> 0, run_id |-> None]

\* A load_model that takes whatever the path names for a bare state dict of
\* fresh weights, without testing that the file exists.
LoadModelNoCheck(c, withOpt, w, o, wr, dc) ==
    [err |-> "none", w |-> 0, o |-> o, wrap |-> AllocateDevice(wr, dc), allocs |-> 1,
     ret |-> [start_epoch |-> 1, loss |-> 0, start |-> 0, run_id |-> ""]]

\* load_model(file_path, optimizer) on a file holding c, in a process whose
\* memory is (w, o, wr): the error raised ("none": it returned), the memory
\* afterwards, the allocate_device calls made and the tuple returned.
LoadModel(c, withOpt, w, o, wr, dc) ==
    LET same == [err |-> "none", w |-> w, o |-> o, wrap |-> wr, allocs |-> 0, ret |-> NoTuple]
    IN  IF c = Absent THEN [same EXCEPT !.err = "ValueError"]
        ELSE IF c = Partial THEN [same EXCEPT !.err = "UnpicklingError"]
        ELSE LET sd == IF IsFull(c) THEN c.state_dict ELSE c
                 loaded == [same EXCEPT !.w = sd.w, !.wrap = AllocateDevice(wr, dc),
                                        !.allocs = 1, !.ret = LoadedTuple(c)]
             IN  IF sd.depth # wr THEN [same EXCEPT !.err = "RuntimeError"]
                 ELSE IF ~withOpt THEN loaded
                 ELSE IF "optimizer" \in DOMAIN c
                      THEN [loaded EXCEPT !.o = c.optimizer]
                      ELSE [loaded EXCEPT !.err = "KeyError", !.ret = NoTuple]

\* ------------------------------------------------------------------ training
\* train_epoch's effect on the parameters and on the optimizer, and its result.
TrainedWeights(w) == w + 1
SteppedOptimizer(o) == o + 1
TrainLoss(w) == 10 + w

\* A fit that never takes a periodic checkpoint.
NeverDue(epoch, save_epochs) == FALSE

\* fit's test for a periodic checkpoint (ZeroDivisionError is tested apart).
SaveDue(epoch, save_epochs) == epoch % save_epochs = 0

\* The epoch fit hands to the save_model after the loop.
FinalSaveEpoch(epochs) == epochs

\* ------------------------------------------------------------------ Init
Init ==
    /\ deviceCount \in {1, 2}
    /\ weights = 0
    /\ optimizer = 0
    /\ wrap = 0
    /\ files = <<>>
    /\ latest = Absent
    /\ dirs = {}
    /\ saveArgs = <<>>
    /\ aborted = FALSE
    /\ torn = FALSE
    /\ interrupts = 0
    /\ pc = "idle"
    /\ fr = EmptyFrame
    /\ obs = EmptyObs
    /\ matrix = ZeroMatrix
    /\ seen = NothingSeen
    /\ ev = NoBatch
    /\ ex = NoGenerator
    /\ eng = NoEngine
    /\ ses = NoSession

\* ------------------------------------------------------------------ fit
\* current_ts(): the clock, which has advanced with every checkpoint file
\* written (the files' timestamps are taken to be distinct).
CurrentTs == Len(files) + 1

\* What is left of a call when an exception leaves it before the epoch loop.
Raised(op, p) == [EmptyFrame EXCEPT !.op = op, !.path = p]

\* The run_id a caller passes: the default None, or a name.
CallerIds == {None, "r1"}

\* The save_epochs a caller passes.
SaveEpochsValues == {0, 1, 2}

\* fit(dataset, epochs, model_directory, save_epochs, ..., resume_model, run_id),
\* lines 64-85: start_epoch = 0, start = current_ts(); the checkpoint is loaded
\* when resume_model is given; allocate_device; the SummaryWriter is opened on
\* os.path.join(model_directory, run_id), which raises TypeError on None.
FitCall ==
    /\ pc = "idle"
    /\ Len(files) < MaxFiles
    /\ \E e \in 0..MaxEpochs, k \in SaveEpochsValues, p \in Paths \cup {NoPath},
          r \in CallerIds :
          LET call == [EmptyFrame EXCEPT !.op = "fit", !.epochs = e, !.save_epochs = k,
                                         !.path = p, !.run_id = r, !.start = CurrentTs]
              l == IF p = NoPath
                   THEN [err |-> "none", w |-> weights, o |-> optimizer, wrap |-> wrap,
                         allocs |-> 0, ret |-> NoTuple]
                   ELSE LoadModel(ReadFile(p), TRUE, weights, optimizer, wrap, deviceCount)
              loaded == IF p = NoPath
                        THEN call
                        ELSE [call EXCEPT !.start_epoch = l.ret.start_epoch,
                                          !.next = l.ret.start_epoch,
                                          !.loss = l.ret.loss, !.lossBound = TRUE,
                                          !.start = l.ret.start, !.run_id = l.ret.run_id]
          IN  /\ weights' = l.w
              /\ optimizer' = l.o
              /\ IF l.err # "none"
                 THEN /\ wrap' = l.wrap
                      /\ obs' = [EmptyObs EXCEPT !.n_alloc = l.allocs, !.err = l.err]
                      /\ fr' = Raised("fit", p)
                      /\ pc' = "error"
                 ELSE /\ wrap' = AllocateDevice(l.wrap, deviceCount)
                      /\ IF loaded.run_id = None
                         THEN /\ obs' = [EmptyObs EXCEPT !.n_alloc = l.allocs + 1,
                                                         !.err = "TypeError"]
                              /\ fr' = Raised("fit", p)
                              /\ pc' = "error"
                         ELSE /\ obs' = [EmptyObs EXCEPT !.n_alloc = l.allocs + 1,
                                                         !.sink = "open",
                                                         !.sinkKey = loaded.run_id]
                              /\ fr' = loaded
                              /\ pc' = "f_loop"
    /\ UNCHANGED <<deviceCount, diskVars, rmVars, stepVars>>

\* Lines 87-91: the next epoch of range(start_epoch, epochs), and train_epoch.
FitTrain ==
    /\ pc = "f_loop"
    /\ fr.next < fr.epochs
    /\ weights' = TrainedWeights(weights)
    /\ optimizer' = SteppedOptimizer(optimizer)
    /\ fr' = [fr EXCEPT !.epoch = fr.next, !.next = fr.next + 1,
                        !.loss = TrainLoss(weights'), !.lossBound = TRUE]
    /\ obs' = [obs EXCEPT !.n_train = @ + 1]
    /\ pc' = "f_check"
    /\ UNCHANGED <<deviceCount, wrap, diskVars, rmVars, stepVars>>

\* Lines 92-95: the periodic checkpoint; epoch % 0 raises ZeroDivisionError.
FitCheck ==
    /\ pc = "f_check"
    /\ IF fr.save_epochs = 0
       THEN /\ obs' = [obs EXCEPT !.err = "ZeroDivisionError"]
            /\ pc' = "error"
            /\ fr' = fr
       ELSE IF SaveDue(fr.epoch, fr.save_epochs)
       THEN /\ fr' = [fr EXCEPT !.s_epoch = fr.epoch, !.s_ret = "f_eval",
                                !.s_kind = "periodic", !.s_prev = latest]
            /\ pc' = "s_dirs"
            /\ obs' = obs
       ELSE /\ pc' = "f_eval"
            /\ UNCHANGED <<fr, obs, ses>>
    /\ UNCHANGED <<deviceCount, memVars, diskVars, rmVars, stepVars>>

\* Lines 97-134: scheduler step, evaluation on the train (and validation) set.
FitEvaluate ==
    /\ pc = "f_eval"
    /\ obs' = [obs EXCEPT !.n_eval = @ + 1]
    /\ pc' = "f_loop"
    /\ UNCHANGED <<deviceCount, memVars, diskVars, fr, rmVars, stepVars>>

\* A fit that returns after the loop without the save_model of line 139.
FitFinalSkip ==
    /\ pc = "f_loop"
    /\ fr.next >= fr.epochs
    /\ obs' = [obs EXCEPT !.sink = "closed"]
    /\ pc' = "f_done"
    /\ UNCHANGED <<deviceCount, memVars, diskVars, fr, rmVars, stepVars>>

\* Lines 136-139, once the range is exhausted: self.writer.close(), then
\* save_model(model_directory, epochs, self.optimizer, loss, start, run_id);
\* loss is unbound (UnboundLocalError) when a fresh fit ran no epoch.
FitFinalSave ==
    /\ pc = "f_loop"
    /\ fr.next >= fr.epochs
    /\ IF ~fr.lossBound
       THEN /\ obs' = [obs EXCEPT !.sink = "closed", !.err = "UnboundLocalError"]
            /\ pc' = "error"
            /\ fr' = fr
       ELSE /\ fr' = [fr EXCEPT !.s_epoch = FinalSaveEpoch(fr.epochs), !.s_ret = "f_done",
                                !.s_kind = "final", !.s_prev = latest]
            /\ pc' = "s_dirs"
            /\ obs' = [obs EXCEPT !.sink = "closed"]
    /\ UNCHANGED <<deviceCount, memVars, diskVars, rmVars, stepVars>>

\* Line 141: fit returns and the task's process ends.
FitReturn ==
    /\ pc = "f_done"
    /\ pc' = "idle"
    /\ fr' = EmptyFrame
    /\ obs' = EmptyObs
    /\ weights' = 0
    /\ optimizer' = 0
    /\ wrap' = 0
    /\ UNCHANGED <<deviceCount, diskVars, rmVars, stepVars>>

\* ------------------------------------------------------------------ save_model
\* Lines 395-399: create model_directory and model_directory/run_id.
SaveMakeDirs ==
    /\ pc = "s_dirs"
    /\ dirs' = dirs \cup {fr.run_id}
    /\ pc' = "s_write"
    /\ UNCHANGED <<deviceCount, memVars, files, latest, saveArgs, aborted, torn,
                   interrupts, fr, obs, rmVars, stepVars>>

\* Lines 401-417: torch.save opens checkpoint_<timestamp>.pth.tar and starts writing.
SaveWriteBegin ==
    /\ pc = "s_write"
    /\ Len(files) < MaxFiles
    /\ files' = Append(files, Partial)
    /\ saveArgs' = Append(saveArgs,
                     [epoch |-> fr.s_epoch, loss |-> fr.loss, start |-> fr.start,
                      run_id |-> fr.run_id, weights |-> weights, optimizer |-> optimizer,
                      kind |-> fr.s_kind, next |-> fr.epoch + 1, trained |-> obs.n_train])
    /\ obs' = [obs EXCEPT !.n_writes = @ + 1]
    /\ pc' = "s_writing"
    /\ UNCHANGED <<deviceCount, memVars, latest, dirs, aborted, torn, interrupts,
                   fr, rmVars, stepVars>>

\* A save_model that starts the copy while the timestamped file is still being written.
SaveWriteUnfinished ==
    /\ pc = "s_writing"
    /\ pc' = "s_copy"
    /\ UNCHANGED <<deviceCount, memVars, diskVars, fr, obs, rmVars, stepVars>>

\* torch.save finishes: the file holds the whole record.
SaveWriteEnd ==
    /\ pc = "s_writing"
    /\ files' = [files EXCEPT ![Len(files)] =
                    SaveRecord(fr.s_epoch, StateDict(weights, wrap), optimizer,
                               fr.loss, fr.start, fr.run_id)]
    /\ pc' = "s_copy"
    /\ UNCHANGED <<deviceCount, memVars, latest, dirs, saveArgs, aborted, torn,
                   interrupts, fr, obs, rmVars, stepVars>>

\* Line 420: copyfile opens checkpoint.pth.tar for writing, which truncates it.
SaveCopyBegin ==
    /\ pc = "s_copy"
    /\ latest' = Partial
    /\ pc' = "s_copying"
    /\ UNCHANGED <<deviceCount, memVars, files, dirs, saveArgs, aborted, torn,
                   interrupts, fr, obs, rmVars, stepVars>>

\* A save_model whose copy never reaches checkpoint.pth.tar.
SaveCopySkipped ==
    /\ pc = "s_copying"
    /\ latest' = fr.s_prev
    /\ aborted' = FALSE
    /\ pc' = fr.s_ret
    /\ UNCHANGED <<deviceCount, memVars, files, dirs, saveArgs, torn, interrupts,
                   fr, obs, rmVars, stepVars>>

\* copyfile finishes and save_model returns to fit.
SaveCopyEnd ==
    /\ pc = "s_copying"
    /\ latest' = files[Len(files)]
    /\ aborted' = FALSE
    /\ pc' = fr.s_ret
    /\ IF fr.s_kind = "periodic"
       THEN fr' = [fr EXCEPT !.lastPeriodic = fr.epoch]
       ELSE fr' = fr
    /\ UNCHANGED <<deviceCount, memVars, files, dirs, saveArgs, torn, interrupts,
                   obs, rmVars, stepVars>>

\* ------------------------------------------------------------------ evaluate
\* evaluate(dataset, model_path), lines 199-210: self.load_model(model_path).
EvaluateCall ==
    /\ pc = "idle"
    /\ \E p \in Paths :
          LET l == LoadModel(ReadFile(p), FALSE, weights, optimizer, wrap, deviceCount)
          IN  /\ weights' = l.w
              /\ optimizer' = l.o
              /\ wrap' = l.wrap
              /\ obs' = [EmptyObs EXCEPT !.n_alloc = l.allocs, !.err = l.err]
              /\ fr' = Raised("evaluate", p)
              /\ pc' = IF l.err = "none" THEN "e_eval" ELSE "error"
    /\ UNCHANGED <<deviceCount, diskVars, rmVars, stepVars>>

\* Lines 213-218: evaluate_model over the test loader; evaluate returns and
\* the task's process ends.
EvaluateRun ==
    /\ pc = "e_eval"
    /\ obs' = [obs EXCEPT !.n_eval = @ + 1]
    /\ pc' = "e_done"
    /\ UNCHANGED <<deviceCount, memVars, diskVars, fr, rmVars, stepVars>>

EvaluateReturn ==
    /\ pc = "e_done"
    /\ pc' = "idle"
    /\ fr' = EmptyFrame
    /\ obs' = EmptyObs
    /\ weights' = 0
    /\ optimizer' = 0
    /\ wrap' = 0
    /\ UNCHANGED <<deviceCount, diskVars, rmVars, stepVars>>

\* ------------------------------------------------------------------ failures
\* An exception leaves fit or evaluate: nothing catches it, the process ends.
ErrorReturn ==
    /\ pc = "error"
    /\ pc' = "idle"
    /\ fr' = EmptyFrame
    /\ obs' = EmptyObs
    /\ weights' = 0
    /\ optimizer' = 0
    /\ wrap' = 0
    /\ UNCHANGED <<deviceCount, diskVars, rmVars, stepVars>>

SavePcs == {"s_dirs", "s_write", "s_writing", "s_copy", "s_copying"}

\* The process is interrupted in the middle of an operation: the disk is what
\* it was at that point.
Interrupt ==
    /\ pc \notin {"idle", "error"}
    /\ interrupts < MaxInterrupts
    /\ interrupts' = interrupts + 1
    /\ pc' = "idle"
    /\ weights' = 0
    /\ optimizer' = 0
    /\ wrap' = 0
    /\ fr' = EmptyFrame
    /\ obs' = EmptyObs
    /\ aborted' = (aborted \/ pc \in {"s_writing", "s_copy", "s_copying"})
    /\ torn' = (torn \/ pc = "s_copying")
    /\ UNCHANGED <<deviceCount, files, latest, dirs, saveArgs, rmVars, stepVars>>

\* ------------------------------------------------------------------ RunningMetrics
\* A multi-hot indicator row over the classes.
Indicators == [1..NumClasses -> {0, 1}]

\* The classes active in a row.
Active(v) == {c \in 1..NumClasses : v[c] = 1}

\* The batches update is fed: per sample, <<true row, predicted row>>.
Batches == UNION {[1..n -> Indicators \X Indicators] : n \in 1..MaxBatch}

\* The samples of a batch with true class i and predicted class j both active.
CellIncrement(batch, i, j) ==
    Cardinality({s \in DOMAIN batch : batch[s][1][i] = 1 /\ batch[s][2][j] = 1})

\* The matrix holding only the counts of one batch.
OverwrittenMatrix(m, batch) ==
    [c \in DOMAIN m |-> CellIncrement(batch, c[1], c[2])]

\* update: cell (i, j) is incremented for every sample and every pair
\* (true class i active, predicted class j active).
UpdatedMatrix(m, batch) ==
    [c \in DOMAIN m |-> m[c] + CellIncrement(batch, c[1], c[2])]

RECURSIVE SumOver(_, _)
SumOver(f, S) ==
    IF S = {} THEN 0
    ELSE LET x == CHOOSE y \in S : TRUE IN f[x] + SumOver(f, S \ {x})

\* The (true, predicted) pairs of active classes over the samples of a batch.
PairCount(batch) ==
    SumOver([s \in DOMAIN batch |->
                Cardinality(Active(batch[s][1])) * Cardinality(Active(batch[s][2]))],
            DOMAIN batch)

\* Every row of the batch has exactly one active class.
OneHot(batch) ==
    \A s \in DOMAIN batch :
        Cardinality(Active(batch[s][1])) = 1 /\ Cardinality(Active(batch[s][2])) = 1

RMUpdate ==
    /\ \E batch \in Batches :
          /\ seen.samples + Len(batch) <= MaxSamples
          /\ matrix' = UpdatedMatrix(matrix, batch)
          /\ seen' = [samples |-> seen.samples + Len(batch),
                      pairs |-> seen.pairs + PairCount(batch),
                      onehot |-> seen.onehot /\ OneHot(batch)]
    /\ UNCHANGED <<deviceCount, memVars, diskVars, pc, fr, obs, stepVars>>

\* reset: zero the matrix.
RMReset ==
    /\ matrix' = ZeroMatrix
    /\ seen' = NothingSeen
    /\ UNCHANGED <<deviceCount, memVars, diskVars, pc, fr, obs, stepVars>>

\* ------------------------------------------------------------------ evaluate_model, one batch
\* Tensors, by what evaluate_model's shape tests see.  A dense tensor of
\* shape <<N, C, H, W>> stands for its own elements: element (n, c, h, w),
\* 0-based, is named by its index.
Dense(shape) == [form |-> "dense", shape |-> shape]
\* A 1-D tensor of class indices.
Flat(v) == [form |-> "flat", v |-> v]
\* A 2-D tensor of indicator rows.
Rows(rows) == [form |-> "rows", rows |-> rows]

Shapes == (1..MaxDim) \X (1..MaxDim) \X (1..MaxDim) \X (1..MaxDim)

\* t.T.reshape(N * H * W, C) for t of shape <<N, C, H, W>>: .T reverses the
\* axes to <<W, H, C, N>>, reshape reads that view in row-major order.  The
\* result, by the index in t of the element at row r, column j.
TReshape(shape) ==
    LET N == shape[1]
        C == shape[2]
        H == shape[3]
        W == shape[4]
    IN  [r \in 0..(N * H * W - 1) |->
            [j \in 0..(C - 1) |->
                LET k == r * C + j
                IN  <<k % N, (k \div N) % C, (k \div (N * C)) % H, k \div (N * C * H)>>]]

Pixels(shape) == [form |-> "pixels", shape |-> shape, src |-> TReshape(shape)]

\* The batches the generator hands to evaluate_model, as (labels, predicted)
\* with predicted from get_predicted: dense, multiclass (class indices) and
\* multilabel (indicator rows).
ClassIndices == UNION {[1..n -> 0..(NumClasses - 1)] : n \in 1..MaxBatch}
IndicatorRows == UNION {[1..n -> Indicators] : n \in 1..MaxBatch}

EvalInputs ==
    {<<Dense(sh), Dense(sh)>> : sh \in Shapes}
    \cup {<<Flat(l), Flat(p)>> : l, p \in ClassIndices}
    \cup {<<Rows(l), Rows(p)>> : l, p \in IndicatorRows}

\* one_hot = zeros(N, num_classes); one_hot[arange(N), predicted] = 1
OneHotRows(v) ==
    [s \in DOMAIN v |-> [c \in 1..NumClasses |-> IF c = v[s] + 1 THEN 1 ELSE 0]]

\* Lines 234-241, at the for statement: the next (inputs, outputs, labels) of
\* the generator, and get_predicted(outputs).
EvalBatchNext ==
    /\ ev.pc = "idle"
    /\ \E b \in EvalInputs :
          /\ b[1].form = b[2].form
          /\ b[1].form # "dense" => Len(b[1][IF b[1].form = "flat" THEN "v" ELSE "rows"])
                                      = Len(b[2][IF b[2].form = "flat" THEN "v" ELSE "rows"])
          /\ ev' = [pc |-> "got", given |-> b[1], labels |-> b[1], predicted |-> b[2]]
    /\ UNCHANGED <<deviceCount, memVars, diskVars, pc, fr, obs, rmVars, ex, eng, ses>>

\* Lines 243-252: predictions of more than 2 dimensions, and their labels,
\* are reshaped.
EvalReshape ==
    /\ ev.pc = "got"
    /\ IF ev.predicted.form = "dense"
       THEN ev' = [ev EXCEPT !.pc = "reshaped",
                             !.predicted = Pixels(ev.predicted.shape),
                             !.labels = Pixels(ev.labels.shape)]
       ELSE ev' = [ev EXCEPT !.pc = "reshaped"]
    /\ UNCHANGED <<deviceCount, memVars, diskVars, pc, fr, obs, rmVars, ex, eng, ses>>

\* Lines 254-260: for 1-D labels the predictions are one-hot encoded.
EvalOneHot ==
    /\ ev.pc = "reshaped"
    /\ IF ev.labels.form = "flat"
       THEN ev' = [ev EXCEPT !.pc = "encoded",
                             !.predicted = Rows(OneHotRows(ev.predicted.v))]
       ELSE ev' = [ev EXCEPT !.pc = "encoded"]
    /\ UNCHANGED <<deviceCount, memVars, diskVars, pc, fr, obs, rmVars, ex, eng, ses>>

\* Lines 262-264: running_metrics.update(labels, predicted); args is what it
\* was called with.
EvalUpdate ==
    /\ ev.pc = "encoded"
    /\ ev' = [pc |-> "updated", given |-> ev.given,
              args |-> [labels |-> ev.labels, predicted |-> ev.predicted]]
    /\ UNCHANGED <<deviceCount, memVars, diskVars, pc, fr, obs, rmVars, ex, eng, ses>>

\* The body is done: back at the for statement of line 234.
EvalLoop ==
    /\ ev.pc = "updated"
    /\ ev' = NoBatch
    /\ UNCHANGED <<deviceCount, memVars, diskVars, pc, fr, obs, rmVars, ex, eng, ses>>

\* ------------------------------------------------------------------ the engine, batch by batch
\* The extension points a model variant supplies; a variant can omit one.
ExtensionPoints == {"criterion", "optimizer", "scheduler", "predicted"}

\* The variants: what they omit, whether load_lr_scheduler returns a
\* scheduler, whether load_optimizer returns one optimizer or a tuple, and
\* whether forward returns a mapping.
Configs ==
    [omitted : {"none"} \cup ExtensionPoints, sched : BOOLEAN,
     optimizer : {"single", "tuple"}, mapping : BOOLEAN]

\* The optimizers the training step loops over.
Optimizers(cfg) == IF cfg.optimizer = "tuple" THEN <<"o1", "o2">> ELSE <<"o">>

\* A data loader, by the batches it delivers, in order.
Loaders == UNION {[1..n -> 1..MaxLoader] : n \in 0..MaxLoader}

\* What the model returns for the inputs of batch b, and what is kept of it
\* (outputs["out"] when it is a mapping).
RawOutput(b, mapping) ==
    IF mapping
    THEN [kind |-> "mapping",
          entries |-> [out |-> [kind |-> "tensor", t |-> <<"out", b>>],
                       aux |-> [kind |-> "tensor", t |-> <<"aux", b>>]]]
    ELSE [kind |-> "tensor", t |-> <<"out", b>>]
KeptOutput(o) == IF o.kind = "mapping" THEN o.entries.out ELSE o

\* One event per element, in sequence order.
Events(kind, seq) == [k \in DOMAIN seq |-> <<kind, seq[k]>>]

\* A record written to the metric-stream sink.
SinkRecord(sink) ==
    [sink EXCEPT !.records = @ + 1,
                 !.late = IF sink.state = "closed" THEN @ + 1 ELSE @]

\* range(start_epoch, epochs)
EpochRangeInclusive(start_epoch, epochs) == start_epoch..epochs
EpochRange(start_epoch, epochs) == start_epoch..(epochs - 1)

\* An exception leaves the running operation.
EngineRaise(e, err) == [e EXCEPT !.pc = "error", !.err = err]

\* prepare(), lines 44-50: load_criterion, load_optimizer, load_lr_scheduler;
\* the base class's versions raise NotImplementedError.
EnginePrepare ==
    /\ eng.pc = "new"
    /\ \E cfg \in Configs :
          IF cfg.omitted \in {"criterion", "optimizer", "scheduler"}
          THEN eng' = EngineRaise([eng EXCEPT !.cfg = cfg], "NotImplementedError")
          ELSE eng' = [eng EXCEPT !.cfg = cfg, !.pc = "ready"]
    /\ UNCHANGED <<deviceCount, memVars, diskVars, pc, fr, obs, rmVars, ev, ex, ses>>

\* fit, lines 64-85, on a prepared model: start_epoch is 0, or what
\* load_model returned when resuming (load_model hands the checkpoint's
\* optimizer state to self.optimizer.load_state_dict, which a tuple lacks);
\* the sink is opened.
EngineFitCall ==
    /\ eng.pc = "ready"
    /\ \E e \in 0..MaxEngineEpochs, st \in 0..MaxEngineEpochs, k \in SaveEpochsValues,
          v \in BOOLEAN, n \in 1..MaxLoader :
          LET call == [op |-> "fit", epochs |-> e, start_epoch |-> st, save_epochs |-> k,
                       val |-> v, loader |-> [b \in 1..n |-> b]]
              began == [eng EXCEPT !.call = call, !.err = "none", !.next = st, !.epoch = 0,
                                   !.i = 0, !.bt = <<>>, !.trace = <<>>, !.passes = 0,
                                   !.batches = 0, !.checkpoints = 0, !.scheds = 0,
                                   !.sink = NoSink, !.lossBound = (st > 0)]
          IN  IF st > 0 /\ eng.cfg.optimizer = "tuple"
              THEN eng' = EngineRaise(began, "AttributeError")
              ELSE eng' = [began EXCEPT !.pc = "loop",
                                        !.sink = [NoSink EXCEPT !.state = "open", !.opens = 1]]
    /\ UNCHANGED <<deviceCount, memVars, diskVars, pc, fr, obs, rmVars, ev, ex, ses>>

\* Lines 87-88 and 143-148: the next epoch of the range; train_epoch puts the
\* model in training mode.
EngineTrainBegin ==
    /\ eng.pc = "loop"
    /\ eng.next \in EpochRange(eng.call.start_epoch, eng.call.epochs)
    /\ eng' = [eng EXCEPT !.epoch = eng.next, !.next = eng.next + 1, !.mode = "train",
                          !.i = 1, !.bt = <<>>, !.trace = <<>>, !.pc = "t_zero"]
    /\ UNCHANGED <<deviceCount, memVars, diskVars, pc, fr, obs, rmVars, ev, ex, ses>>

\* Lines 149-160: the next batch; every optimizer's gradients are zeroed.
TrainZeroGrad ==
    /\ eng.pc = "t_zero"
    /\ eng' = [eng EXCEPT !.bt = Events("zero_grad", Optimizers(eng.cfg)),
                          !.pc = "t_forward"]
    /\ UNCHANGED <<deviceCount, memVars, diskVars, pc, fr, obs, rmVars, ev, ex, ses>>

\* Lines 162-171: the forward pass and the loss.
TrainForward ==
    /\ eng.pc = "t_forward"
    /\ eng' = [eng EXCEPT !.bt = @ \o <<<<"forward", eng.mode, eng.grad>>, <<"loss">>>>,
                          !.batches = @ + 1,
                          !.pc = "t_backward"]
    /\ UNCHANGED <<deviceCount, memVars, diskVars, pc, fr, obs, rmVars, ev, ex, ses>>

\* Line 172: loss.backward().
TrainBackward ==
    /\ eng.pc = "t_backward"
    /\ eng' = [eng EXCEPT !.bt = Append(@, <<"backward">>), !.pc = "t_step"]
    /\ UNCHANGED <<deviceCount, memVars, diskVars, pc, fr, obs, rmVars, ev, ex, ses>>

\* A training step that steps only the first optimizer.
TrainStepFirst ==
    /\ eng.pc = "t_step"
    /\ eng' = [eng EXCEPT !.bt = @ \o <<<<"step", Optimizers(eng.cfg)[1]>>>>,
                          !.i = @ + 1,
                          !.pc = IF eng.i < Len(eng.call.loader) THEN "t_zero" ELSE "t_end"]
    /\ UNCHANGED <<deviceCount, memVars, diskVars, pc, fr, obs, rmVars, ev, ex, ses>>

\* Lines 174-179 (and the statistics up to 191): every optimizer steps; on to
\* the next batch of the loader, if any.
TrainStep ==
    /\ eng.pc = "t_step"
    /\ eng' = [eng EXCEPT !.bt = @ \o Events("step", Optimizers(eng.cfg)),
                          !.i = @ + 1,
                          !.pc = IF eng.i < Len(eng.call.loader) THEN "t_zero" ELSE "t_end"]
    /\ UNCHANGED <<deviceCount, memVars, diskVars, pc, fr, obs, rmVars, ev, ex, ses>>

\* Lines 193-197 and 91: train_epoch returns the loss, which fit records
\* under Loss/train.
EngineTrainEnd ==
    /\ eng.pc = "t_end"
    /\ eng' = [eng EXCEPT !.passes = @ + 1, !.lossBound = TRUE,
                          !.trace = Append(@, "train"),
                          !.sink = SinkRecord(@),
                          !.pc = "check"]
    /\ UNCHANGED <<deviceCount, memVars, diskVars, pc, fr, obs, rmVars, ev, ex, ses>>

\* Lines 92-95: the periodic checkpoint; save_model calls
\* optimizer.state_dict(), which a tuple lacks.
EngineCheckpoint ==
    /\ eng.pc = "check"
    /\ IF eng.call.save_epochs = 0
       THEN eng' = EngineRaise(eng, "ZeroDivisionError")
       ELSE IF ~SaveDue(eng.epoch, eng.call.save_epochs)
       THEN eng' = [eng EXCEPT !.pc = "sched"]
       ELSE IF eng.cfg.optimizer = "tuple"
       THEN eng' = EngineRaise(eng, "AttributeError")
       ELSE eng' = [eng EXCEPT !.checkpoints = @ + 1,
                               !.trace = Append(@, "checkpoint"),
                               !.pc = "sched"]
    /\ UNCHANGED <<deviceCount, memVars, diskVars, pc, fr, obs, rmVars, ev, ex, ses>>

\* A fit that steps the scheduler twice an epoch.
EngineSchedTwice ==
    /\ eng.pc = "sched"
    /\ eng' = [eng EXCEPT !.scheds = @ + 2, !.trace = @ \o <<"sched", "sched">>,
                          !.pc = "eval_train"]
    /\ UNCHANGED <<deviceCount, memVars, diskVars, pc, fr, obs, rmVars, ev, ex, ses>>

\* Lines 96-98: the scheduler steps, if there is one.
EngineSched ==
    /\ eng.pc = "sched"
    /\ IF eng.cfg.sched
       THEN eng' = [eng EXCEPT !.scheds = @ + 1, !.trace = Append(@, "sched"),
                               !.pc = "eval_train"]
       ELSE eng' = [eng EXCEPT !.pc = "eval_train"]
    /\ UNCHANGED <<deviceCount, memVars, diskVars, pc, fr, obs, rmVars, ev, ex, ses>>

\* The generator object predict_output_per_batch returns: no line of its body
\* has run yet.
Generator(loader, consumer) ==
    [NoGenerator EXCEPT !.pc = "created", !.loader = loader, !.consumer = consumer]

\* Lines 101-105 and 120-124 with 231-236: evaluate_model puts the model in
\* evaluation mode and calls predict_output_per_batch on the loader.
EngineEvalBegin ==
    /\ eng.pc \in {"eval_train", "eval_val"}
    /\ ex' = Generator(eng.call.loader, IF eng.pc = "eval_train" THEN "train" ELSE "val")
    /\ eng' = [eng EXCEPT !.mode = "eval",
                          !.trace = Append(@, eng.pc),
                          !.pc = "pass"]
    /\ UNCHANGED <<deviceCount, memVars, diskVars, pc, fr, obs, rmVars, ev, ses>>

\* A generator that leaves the model's mode and autograd as they are.
ExecStartAsIs ==
    /\ ex.pc = "created"
    /\ ex' = [ex EXCEPT !.pc = "running", !.prevGrad = eng.grad]
    /\ UNCHANGED <<deviceCount, memVars, diskVars, pc, fr, obs, rmVars, ev, eng, ses>>

\* Lines 330-334, at the consumer's first request: model.eval() and
\* torch.no_grad() is entered.
ExecStart ==
    /\ ex.pc = "created"
    /\ ex' = [ex EXCEPT !.pc = "running", !.prevGrad = eng.grad]
    /\ eng' = [eng EXCEPT !.mode = "eval", !.grad = FALSE]
    /\ UNCHANGED <<deviceCount, memVars, diskVars, pc, fr, obs, rmVars, ev, ses>>

\* A generator that yields the model's raw output.
YieldedRaw(b, cfg, mode, grad) ==
    [inputs |-> <<"inputs", b>>, outputs |-> RawOutput(b, cfg.mapping),
     labels |-> <<"labels", b>>, mode |-> mode, grad |-> grad]

\* The triple yielded for batch b, with the mode and autograd state its
\* forward pass ran in.
Yielded(b, cfg, mode, grad) ==
    [inputs |-> <<"inputs", b>>, outputs |-> KeptOutput(RawOutput(b, cfg.mapping)),
     labels |-> <<"labels", b>>, mode |-> mode, grad |-> grad]

\* Lines 335-346: the loader's next batch goes through the model and the
\* triple is yielded.
ExecYield ==
    /\ ex.pc = "running"
    /\ ex.pos < Len(ex.loader)
    /\ ex' = [ex EXCEPT !.pos = @ + 1,
                        !.yielded = Append(@, Yielded(ex.loader[ex.pos + 1], eng.cfg,
                                                      eng.mode, eng.grad)),
                        !.pc = "yielded"]
    /\ UNCHANGED <<deviceCount, memVars, diskVars, pc, fr, obs, rmVars, ev, eng, ses>>

\* Line 335, the loader is exhausted: the with block is left, autograd is as
\* it was, the generator ends.
ExecEnd ==
    /\ ex.pc = "running"
    /\ ex.pos = Len(ex.loader)
    /\ ex' = [ex EXCEPT !.pc = "ended"]
    /\ eng' = [eng EXCEPT !.grad = ex.prevGrad]
    /\ UNCHANGED <<deviceCount, memVars, diskVars, pc, fr, obs, rmVars, ev, ses>>

\* Lines 237-264, evaluate_model's body for the yielded triple: the loss,
\* get_predicted (the base class's raises NotImplementedError), the update of
\* RunningMetrics; then the next triple is requested.
EngineEvalBody ==
    /\ ex.pc = "yielded"
    /\ ex.consumer \in {"train", "val"}
    /\ IF eng.cfg.omitted = "predicted"
       THEN /\ eng' = EngineRaise(eng, "NotImplementedError")
            /\ ex' = ex
       ELSE /\ ex' = [ex EXCEPT !.pc = "running"]
            /\ eng' = eng
    /\ UNCHANGED <<deviceCount, memVars, diskVars, pc, fr, obs, rmVars, ev, ses>>

\* Lines 106-117 and 125-134, after evaluate_model has returned: log_metrics
\* under the tag (and Loss/val for the validation set), then
\* running_metrics.reset().
EngineEmit ==
    /\ eng.pc = "pass"
    /\ ex.pc = "ended"
    /\ ex.consumer \in {"train", "val"}
    /\ IF ex.consumer = "train"
       THEN eng' = [eng EXCEPT !.trace = @ \o <<"emit_train", "reset">>,
                               !.sink = SinkRecord(@),
                               !.pc = IF eng.call.val THEN "eval_val" ELSE "loop"]
       ELSE eng' = [eng EXCEPT !.trace = @ \o <<"emit_val", "loss_val", "reset">>,
                               !.sink = SinkRecord(SinkRecord(@)),
                               !.pc = "loop"]
    /\ ex' = NoGenerator
    /\ UNCHANGED <<deviceCount, memVars, diskVars, pc, fr, obs, rmVars, ev, ses>>

\* Lines 136-139, the range is exhausted: the sink is closed and the final
\* checkpoint saved (loss is unbound if no epoch ran in a fresh fit).
EngineFinalize ==
    /\ eng.pc = "loop"
    /\ eng.next \notin EpochRange(eng.call.start_epoch, eng.call.epochs)
    /\ LET closed == [eng EXCEPT !.sink.state = "closed", !.sink.closes = @ + 1]
       IN  IF ~eng.lossBound
           THEN eng' = EngineRaise(closed, "UnboundLocalError")
           ELSE IF eng.cfg.optimizer = "tuple"
           THEN eng' = EngineRaise(closed, "AttributeError")
           ELSE eng' = [closed EXCEPT !.checkpoints = @ + 1, !.pc = "done"]
    /\ UNCHANGED <<deviceCount, memVars, diskVars, pc, fr, obs, rmVars, ev, ex, ses>>

\* What stays with the model instance between operations.
Prepared(e) == [NoEngine EXCEPT !.pc = "ready", !.cfg = e.cfg, !.mode = e.mode, !.grad = e.grad]

\* Line 141: fit returns.
EngineFitReturn ==
    /\ eng.pc = "done"
    /\ eng' = Prepared(eng)
    /\ UNCHANGED <<deviceCount, memVars, diskVars, pc, fr, obs, rmVars, ev, ex, ses>>

\* predict(dataset), lines 271-287: predict_output_per_batch on the dataset's loader.
EnginePredictCall ==
    /\ eng.pc = "ready"
    /\ \E l \in Loaders :
          /\ ex' = Generator(l, "predict")
          /\ eng' = [eng EXCEPT !.pc = "predict", !.call = [NoCall EXCEPT !.op = "predict",
                                                                           !.loader = l]]
    /\ UNCHANGED <<deviceCount, memVars, diskVars, pc, fr, obs, rmVars, ev, ses>>

\* Lines 285-291, predict's body for the yielded triple: get_predicted and
\* the lists; then the next triple is requested.
EnginePredictBody ==
    /\ ex.pc = "yielded"
    /\ ex.consumer = "predict"
    /\ IF eng.cfg.omitted = "predicted"
       THEN /\ eng' = EngineRaise(eng, "NotImplementedError")
            /\ ex' = ex
       ELSE /\ ex' = [ex EXCEPT !.pc = "running"]
            /\ eng' = eng
    /\ UNCHANGED <<deviceCount, memVars, diskVars, pc, fr, obs, rmVars, ev, ses>>

\* Line 293: predict returns.
EnginePredictReturn ==
    /\ eng.pc = "predict"
    /\ ex.pc = "ended"
    /\ eng' = Prepared(eng)
    /\ ex' = NoGenerator
    /\ UNCHANGED <<deviceCount, memVars, diskVars, pc, fr, obs, rmVars, ev, ses>>

\* An exception leaves the operation: nothing catches it, the process ends,
\* and with it the model instance and the generator.
EngineErrorExit ==
    /\ eng.pc = "error"
    /\ eng' = NoEngine
    /\ ex' = NoGenerator
    /\ UNCHANGED <<deviceCount, memVars, diskVars, pc, fr, obs, rmVars, ev, ses>>

\* ------------------------------------------------------------------ one instance, several operations
\* The operations below run one after another on the same BaseModel, whose
\* running_metrics is created once, in __init__ (line 41).  ses.own is the
\* matrix the batches of the current pass alone would give.

\* The batches an evaluation pass feeds to update: one-hot rows.
SessionBatches == {b \in Batches : OneHot(b)}

\* The start of an evaluate_model pass whose scores go under the given tag.
PassStart(s, tag) == [s EXCEPT !.pc = "pass", !.tag = tag, !.n = 0, !.own = ZeroMatrix]

\* evaluate(dataset, model_path), lines 209-216: load_model, the loader, and
\* evaluate_model begins.
SessionEvaluateCall ==
    /\ ses.pc = "ready"
    /\ ses' = PassStart([ses EXCEPT !.op = "evaluate"], "test")
    /\ UNCHANGED <<deviceCount, memVars, diskVars, pc, fr, obs, rmVars, ev, ex, eng>>

\* fit(...), lines 64-85, up to the epoch loop.
SessionFitCall ==
    /\ ses.pc = "ready"
    /\ \E e \in 1..MaxSessionEpochs, v \in BOOLEAN :
          ses' = [ses EXCEPT !.op = "fit", !.epochs = e, !.epoch = 0, !.val = v,
                             !.pc = "loop"]
    /\ UNCHANGED <<deviceCount, memVars, diskVars, pc, fr, obs, rmVars, ev, ex, eng>>

\* Lines 87-106: the next epoch's train_epoch, checkpoint and scheduler step,
\* none of which touches running_metrics; evaluate_model on the train loader
\* begins.
SessionEpoch ==
    /\ ses.pc = "loop"
    /\ ses.epoch < ses.epochs
    /\ ses' = PassStart([ses EXCEPT !.epoch = @ + 1], "train")
    /\ UNCHANGED <<deviceCount, memVars, diskVars, pc, fr, obs, rmVars, ev, ex, eng>>

\* Lines 236-264: one batch of the pass reaches running_metrics.update.
SessionBatch ==
    /\ ses.pc = "pass"
    /\ \E batch \in SessionBatches :
          /\ seen.samples + Len(batch) <= MaxSamples
          /\ matrix' = UpdatedMatrix(matrix, batch)
          /\ seen' = [samples |-> seen.samples + Len(batch),
                      pairs |-> seen.pairs + PairCount(batch),
                      onehot |-> seen.onehot /\ OneHot(batch)]
          /\ ses' = [ses EXCEPT !.n = @ + 1, !.own = UpdatedMatrix(@, batch)]
    /\ UNCHANGED <<deviceCount, memVars, diskVars, pc, fr, obs, ev, ex, eng>>

\* Lines 266-269: the loader is exhausted and evaluate_model returns, to fit
\* or to evaluate.
SessionPassEnd ==
    /\ ses.pc = "pass"
    /\ ses.n >= 1
    /\ ses' = [ses EXCEPT !.pc = IF ses.op = "fit" THEN "emit" ELSE "return"]
    /\ UNCHANGED <<deviceCount, memVars, diskVars, pc, fr, obs, rmVars, ev, ex, eng>>

\* Lines 107-116 and 126-133: log_metrics(running_metrics.get_scores(...),
\* ..., tag, writer, epoch + 1).
SessionEmit ==
    /\ ses.pc = "emit"
    /\ ses' = [ses EXCEPT !.pc = "reset",
                          !.last = [tag |-> ses.tag, epoch |-> ses.epoch,
                                    exact |-> (matrix = ses.own)]]
    /\ UNCHANGED <<deviceCount, memVars, diskVars, pc, fr, obs, rmVars, ev, ex, eng>>

\* Lines 117 and 134: running_metrics.reset(); then the validation pass
\* (lines 120-125) when there is a validation loader, or the next epoch.
SessionReset ==
    /\ ses.pc = "reset"
    /\ matrix' = ZeroMatrix
    /\ seen' = NothingSeen
    /\ ses' = IF ses.tag = "train" /\ ses.val
              THEN PassStart(ses, "val")
              ELSE [ses EXCEPT !.pc = "loop", !.tag = "none", !.n = 0, !.own = ZeroMatrix]
    /\ UNCHANGED <<deviceCount, memVars, diskVars, pc, fr, obs, ev, ex, eng>>

\* Lines 136-141: the range is exhausted and fit returns; the instance and
\* its running_metrics stay.
SessionFitReturn ==
    /\ ses.pc = "loop"
    /\ ses.epoch >= ses.epochs
    /\ ses' = [NoSession EXCEPT !.last = ses.last]
    /\ UNCHANGED <<deviceCount, memVars, diskVars, pc, fr, obs, rmVars, ev, ex, eng>>

\* Line 218: evaluate returns the result; running_metrics is left as the
\* pass filled it.
SessionEvaluateReturn ==
    /\ ses.pc = "return"
    /\ ses' = [NoSession EXCEPT !.last = ses.last]
    /\ UNCHANGED <<deviceCount, memVars, diskVars, pc, fr, obs, rmVars, ev, ex, eng>>

Next ==
    \/ FitCall
    \/ FitTrain
    \/ FitCheck
    \/ FitEvaluate
    \/ FitFinalSave
    \/ FitReturn
    \/ SaveMakeDirs
    \/ SaveWriteBegin
    \/ SaveWriteEnd
    \/ SaveCopyBegin
    \/ SaveCopyEnd
    \/ EvaluateCall
    \/ EvaluateRun
    \/ EvaluateReturn
    \/ ErrorReturn
    \/ Interrupt

Spec == Init /\ [][Next]_vars

\* The accumulator on its own, driven by any sequence of updates and resets.
NextRM ==
    \/ RMUpdate
    \/ RMReset

SpecRM == Init /\ [][NextRM]_vars

\* evaluate_model's loop body, batch after batch.
NextEval ==
    \/ EvalBatchNext
    \/ EvalReshape
    \/ EvalOneHot
    \/ EvalUpdate
    \/ EvalLoop

SpecEval == Init /\ [][NextEval]_vars

\* The engine at the grain of batches.  The code is sequential: a step that
\* can be taken is taken.
NextEngine ==
    \/ EnginePrepare
    \/ EngineFitCall
    \/ EngineTrainBegin
    \/ TrainZeroGrad
    \/ TrainForward
    \/ TrainBackward
    \/ TrainStep
    \/ EngineTrainEnd
    \/ EngineCheckpoint
    \/ EngineSched
    \/ EngineEvalBegin
    \/ ExecStart
    \/ ExecYield
    \/ ExecEnd
    \/ EngineEvalBody
    \/ EngineEmit
    \/ EngineFinalize
    \/ EngineFitReturn
    \/ EnginePredictCall
    \/ EnginePredictBody
    \/ EnginePredictReturn
    \/ EngineErrorExit

SpecEngine == Init /\ [][NextEngine]_vars /\ WF_vars(NextEngine)

\* One model instance: evaluate and fit, one after another.
NextSession ==
    \/ SessionEvaluateCall
    \/ SessionFitCall
    \/ SessionEpoch
    \/ SessionBatch
    \/ SessionPassEnd
    \/ SessionEmit
    \/ SessionReset
    \/ SessionFitReturn
    \/ SessionEvaluateReturn

SpecSession == Init /\ [][NextSession]_vars

\* ================================================================== properties
\* The n-th timestamped file written by the running fit.
FitFile(n) == files[Len(files) - obs.n_writes + n]

FreshFitDone == pc = "f_done" /\ fr.path = NoPath /\ fr.save_epochs = 1

\* C1, as stated: a fresh fit with epochs = E and save_epochs = 1 has made
\* exactly E timestamped writes when it returns, and latest holds the E-th.
C1_ExactlyEWrites ==
    FreshFitDone => obs.n_writes = fr.epochs /\ latest = FitFile(fr.epochs)

\* C1, amended: such a fit has made exactly E + 1 timestamped writes when it
\* returns (one per epoch and one after the loop), and latest holds the last
\* of them, the (E + 1)-th.
C1_EPlusOneWrites ==
    FreshFitDone => obs.n_writes = fr.epochs + 1 /\ latest = FitFile(fr.epochs + 1)

C1_Witness ==
    FreshFitDone /\ fr.epochs = 2 /\ obs.n_writes = 3 /\ latest # FitFile(2)

\* C2: a fit resumed from a checkpoint file that fit wrote (periodic or final)
\* trains, as its first epoch, the epoch right after the last one completed
\* when the file was written.
C2_ResumeAtNextEpoch ==
    \A i \in 1..Len(files) :
        ( /\ fr.op = "fit"
          /\ fr.path = TsPath(i)
          /\ pc = "f_check"
          /\ obs.n_train = 1
          /\ saveArgs[i].trained > 0 )
        => fr.epoch = saveArgs[i].next

\* C3: load_model on a complete file written by save_model succeeds, restores
\* the saved weights and, called by fit with the optimizer, restores the saved
\* optimizer state and returns (epoch + 1, loss, start, run_id) as passed to save.
C3_RoundTrip ==
    \A i \in 1..Len(files) :
        ( /\ fr.path = TsPath(i)
          /\ IsFull(files[i])
          /\ pc \in {"f_loop", "e_eval", "error"}
          /\ obs.n_train = 0 )
        => /\ pc # "error"
           /\ weights = saveArgs[i].weights
           /\ fr.op = "fit" =>
                 /\ optimizer = saveArgs[i].optimizer
                 /\ fr.start_epoch = saveArgs[i].epoch + 1
                 /\ fr.loss = saveArgs[i].loss
                 /\ fr.start = saveArgs[i].start
                 /\ fr.run_id = saveArgs[i].run_id

\* The points of save_model before the copy onto latest has begun.
BeforeCopy == {"s_dirs", "s_write", "s_writing", "s_copy"}

\* C4: the copy onto latest begins only once the timestamped file is complete,
\* and a process interrupted in save_model before the copy has begun leaves
\* latest holding what it held when save_model was entered.
C4_CopyAfterCompleteWrite ==
    [][ /\ pc' = "s_copying" => IsFull(files'[Len(files')])
        /\ (pc \in BeforeCopy /\ pc' = "idle") => latest' = fr.s_prev ]_vars

C4_Witness ==
    /\ pc = "idle"
    /\ aborted
    /\ ~torn
    /\ Len(files) >= 2
    /\ files[Len(files)] = Partial
    /\ latest = files[Len(files) - 1]
    /\ IsFull(latest)

SinceCheckpoint ==
    IF fr.lastPeriodic >= 0 THEN fr.epoch - fr.lastPeriodic
    ELSE fr.epoch - fr.start_epoch + 1

\* C6: in a fit with save_epochs = K, a periodic checkpoint comes exactly K
\* epochs after the previous one and no K epochs pass without one; the fit
\* that leaves the loop after training an epoch has, when it returns, persisted
\* a final checkpoint holding the weights it ends with.
C6_PeriodicAndFinal ==
    /\ (pc = "s_dirs" /\ fr.s_kind = "periodic" /\ fr.lastPeriodic >= 0)
          => fr.epoch - fr.lastPeriodic = fr.save_epochs
    /\ pc = "f_eval" => SinceCheckpoint < fr.save_epochs
    /\ (pc = "error" /\ obs.err = "UnboundLocalError") => obs.n_train = 0
    /\ pc = "f_done" =>
          /\ saveArgs[Len(files)].kind = "final"
          /\ latest = files[Len(files)]
          /\ IsFull(latest)
          /\ latest.state_dict.w = weights

C6_Witness ==
    /\ pc = "s_dirs"
    /\ fr.s_kind = "periodic"
    /\ fr.save_epochs = 2
    /\ fr.lastPeriodic = 0
    /\ fr.epoch = 2

\* C7: fit (resuming) or evaluate called on a path that names no file fails
\* with the not-found error (ValueError), with the weights, the optimizer and
\* the wrapping as they were, and before any training or evaluation pass,
\* device allocation, sink opening or checkpoint write.
C7_MissingPathFailsCleanly ==
    [][ ( /\ pc = "idle"
          /\ pc' # "idle"
          /\ fr'.path # NoPath
          /\ ReadFile(fr'.path) = Absent )
        => /\ pc' = "error"
           /\ obs'.err = "ValueError"
           /\ weights' = weights /\ optimizer' = optimizer /\ wrap' = wrap
           /\ obs'.n_train = 0 /\ obs'.n_eval = 0 /\ obs'.n_alloc = 0
           /\ obs'.n_writes = 0 /\ obs'.sink = "unopened"
           /\ files' = files /\ latest' = latest /\ dirs' = dirs ]_vars

C7_Witness ==
    /\ pc = "error"
    /\ obs.err = "ValueError"
    /\ fr.op = "fit"
    /\ fr.path = MissingPath
    /\ obs.n_alloc = 0
    /\ Len(files) > 0

\* C8: fit resuming from a weights-only checkpoint loads it without error:
\* the weights are the file's, the optimizer state is unchanged, and the
\* tuple returned is (1, 0, 0, "").
C8_WeightsOnlyResume ==
    ( /\ fr.op = "fit"
      /\ fr.path = WeightsPath
      /\ pc \in {"f_loop", "error"}
      /\ obs.n_train = 0 )
    => /\ pc = "f_loop"
       /\ weights = WeightsOnly.w
       /\ optimizer = 0
       /\ fr.start_epoch = 1 /\ fr.loss = 0 /\ fr.start = 0 /\ fr.run_id = ""

\* C9: a fresh fit does not fail for want of a run_id, and the sink it opens
\* is keyed by the run id of the invocation, which is a name.
C9_RunIdGenerated ==
    (fr.op = "fit" /\ fr.path = NoPath)
    => /\ ~(pc = "error" /\ obs.err = "TypeError")
       /\ obs.sink = "open" => (obs.sinkKey = fr.run_id /\ fr.run_id # None)

\* The sum of all cells of the confusion matrix.
CellSum == SumOver(matrix, DOMAIN matrix)

\* C10, as stated: the sum of all cells equals the number of samples passed
\* to update since the last reset.
C10_SumIsSampleCount == CellSum = seen.samples

\* C10, amended: the sum of all cells equals the number of (true, predicted)
\* pairs of active classes over the samples passed to update since the last
\* reset; it equals the number of samples when every row was one-hot.
C10_SumIsPairCount ==
    /\ CellSum = seen.pairs
    /\ seen.onehot => CellSum = seen.samples

C10_Witness ==
    /\ seen.samples = MaxSamples
    /\ ~seen.onehot
    /\ CellSum > seen.samples

\* C11: when the labels of a batch are a flat vector of class indices, the
\* labels passed to RunningMetrics.update are their one-hot expansion, and both
\* arguments are equally many indicator rows of width num_classes.
C11_FlatLabelsExpanded ==
    (ev.pc = "updated" /\ ev.given.form = "flat")
    => /\ ev.args.labels = Rows(OneHotRows(ev.given.v))
       /\ ev.args.predicted.form = "rows"
       /\ Len(ev.args.predicted.rows) = Len(ev.given.v)

\* The rows of a reshaped tensor are the class vectors of single pixels.
RowsArePixels(t) ==
    /\ DOMAIN t.src = 0..(t.shape[1] * t.shape[3] * t.shape[4] - 1)
    /\ \A r \in DOMAIN t.src :
          \E n \in 0..(t.shape[1] - 1), h \in 0..(t.shape[3] - 1), w \in 0..(t.shape[4] - 1) :
              \A j \in DOMAIN t.src[r] : t.src[r][j] = <<n, j, h, w>>

\* C20: for predictions of shape (N, C, H, W), each of the N*H*W rows of the
\* reshaped predictions, and of the reshaped labels, is the C-entry class
\* vector of one pixel of one sample.
C20_ReshapedRowsArePixels ==
    (ev.pc = "reshaped" /\ ev.predicted.form = "pixels")
    => RowsArePixels(ev.predicted) /\ RowsArePixels(ev.labels)

\* C12: the generator has yielded exactly one triple per batch it has taken
\* from the loader, in the loader's order, each holding the batch's inputs and
\* labels and, of a mapping output, only the "out" entry (of any other output,
\* the output itself); it ends when the loader is exhausted.
C12_OneTriplePerBatch ==
    ex.pc # "none" =>
        /\ Len(ex.yielded) = ex.pos
        /\ ex.pos <= Len(ex.loader)
        /\ \A k \in 1..Len(ex.yielded) :
              LET b == ex.loader[k]
                  y == ex.yielded[k]
              IN  /\ y.inputs = <<"inputs", b>>
                  /\ y.labels = <<"labels", b>>
                  /\ y.outputs = IF eng.cfg.mapping
                                 THEN RawOutput(b, TRUE).entries.out
                                 ELSE RawOutput(b, FALSE)
        /\ ex.pc = "ended" => ex.pos = Len(ex.loader)

C12_Witness ==
    /\ ex.pc = "ended"
    /\ ex.consumer = "predict"
    /\ eng.cfg.mapping
    /\ ex.loader = <<2, 1>>
    /\ Len(ex.yielded) = 2

\* The order of an epoch's steps, without the Loss/train record.
EpochOrder ==
    <<"train">>
    \o (IF eng.call.save_epochs # 0 /\ SaveDue(eng.epoch, eng.call.save_epochs)
        THEN <<"checkpoint">> ELSE <<>>)
    \o (IF eng.cfg.sched THEN <<"sched">> ELSE <<>>)
    \o <<"eval_train", "emit_train", "reset">>
    \o (IF eng.call.val THEN <<"eval_val", "emit_val", "loss_val", "reset">> ELSE <<>>)

IsPrefix(p, q) == Len(p) <= Len(q) /\ \A k \in 1..Len(p) : p[k] = q[k]

\* C13: within an epoch of fit the steps taken so far are, in this order: the
\* training pass, the checkpoint if due, one scheduler step if a scheduler is
\* configured, train-set evaluation, emission under "train", reset, and with a
\* validation set validation evaluation, emission under "val" with the
\* validation loss, reset; an epoch that ends has taken them all.
C13_EpochStepOrder ==
    eng.call.op = "fit" =>
        /\ IsPrefix(eng.trace, EpochOrder)
        /\ (eng.pc = "loop" /\ eng.passes > 0) => eng.trace = EpochOrder
        /\ eng.pc = "pass" => ex.pc # "none"

C13_Witness ==
    /\ eng.pc = "loop"
    /\ eng.passes = 2
    /\ eng.cfg.sched
    /\ eng.call.val
    /\ eng.call.save_epochs = 1
    /\ Len(eng.trace) = 10

\* C14: every batch the generator has put through the model ran in
\* evaluation mode with autograd off, and every training batch in training
\* mode with autograd on.
C14_ModeAndAutograd ==
    /\ \A k \in 1..Len(ex.yielded) :
          ex.yielded[k].mode = "eval" /\ ~ex.yielded[k].grad
    /\ \A k \in 1..Len(eng.bt) :
          eng.bt[k][1] = "forward" => (eng.bt[k][2] = "train" /\ eng.bt[k][3])

C14_Witness ==
    /\ eng.pc = "t_backward"
    /\ eng.passes = 1
    /\ eng.call.val
    /\ eng.bt[Len(eng.bt) - 1] = <<"forward", "train", TRUE>>

\* The order of one training batch's steps for a variant's optimizers.
BatchOrder ==
    Events("zero_grad", Optimizers(eng.cfg))
    \o <<<<"forward">>, <<"loss">>, <<"backward">>>>
    \o Events("step", Optimizers(eng.cfg))

BatchSteps == [k \in 1..Len(eng.bt) |->
                  IF eng.bt[k][1] = "forward" THEN <<"forward">> ELSE eng.bt[k]]

\* C15: the steps taken for a training batch are, in this order: zero_grad of
\* every optimizer, forward, loss, backward, step of every optimizer, each
\* once; a batch that is over has taken them all.
C15_BatchStepOrder ==
    /\ IsPrefix(BatchSteps, BatchOrder)
    /\ (eng.pc \in {"t_zero", "t_end"} /\ eng.i > 1) => BatchSteps = BatchOrder

C15_Witness ==
    /\ eng.pc = "t_zero"
    /\ eng.i = 2
    /\ eng.cfg.optimizer = "tuple"
    /\ Len(eng.bt) = 7

\* The training passes of a fit whose range is start_epoch..epochs-1.
PassesDue == IF eng.call.epochs > eng.call.start_epoch
             THEN eng.call.epochs - eng.call.start_epoch ELSE 0

\* C18: a fit that has entered the epoch loop ends, returning or raising; the
\* one that returns has run epochs - start_epoch training passes, opened the
\* sink once and closed it once, and written no record after closing it; no
\* record is written before the sink is opened.
C18_FitTerminates ==
    /\ [](eng.pc = "done" =>
            /\ eng.passes = PassesDue
            /\ eng.sink.opens = 1
            /\ eng.sink.closes = 1
            /\ eng.sink.state = "closed"
            /\ eng.sink.late = 0)
    /\ [](eng.sink.records > 0 => eng.sink.opens = 1)
    /\ (eng.call.op = "fit" /\ eng.pc = "loop") ~> (eng.pc \in {"done", "error"})

C18_Witness ==
    /\ eng.pc = "done"
    /\ eng.passes = 2
    /\ eng.call.val
    /\ eng.sink.records = 8

\* C19: when an omitted extension point raises NotImplementedError, no
\* training batch has been processed and no checkpoint written.
C19_OmissionFailsFast ==
    (eng.pc = "error" /\ eng.err = "NotImplementedError")
    => eng.batches = 0 /\ eng.checkpoints = 0

\* The running fit's range(start_epoch, epochs) is invalid: epochs below 1,
\* or a start epoch not below epochs.
InvalidRange == fr.epochs < 1 \/ fr.start_epoch >= fr.epochs

\* C16: a fit whose epoch range is invalid gets no further than the
\* validation: it allocates no device, opens no sink, trains no batch and
\* writes no checkpoint.
C16_InvalidRangeRejected ==
    (fr.op = "fit" /\ pc \notin {"idle", "error"} /\ InvalidRange)
    => /\ obs.n_alloc = 0
       /\ obs.sink = "unopened"
       /\ obs.n_train = 0
       /\ obs.n_writes = 0

\* C17: in a fit that is past its initialisation, fresh or resumed, the device
\* has been allocated exactly once, and the model is wrapped once when several
\* devices are visible and not at all otherwise.
C17_AllocatedOnce ==
    (fr.op = "fit" /\ pc \notin {"idle", "error"})
    => /\ obs.n_alloc = 1
       /\ wrap = AllocateDevice(0, deviceCount)

\* The checkpoint files the running fit has written so far.
WrittenByThisFit == (Len(files) - obs.n_writes + 1)..Len(files)

\* One step of fit keeps the invocation's run id and start time: a resumed
\* fit leaves its initialisation with the four values the checkpoint holds,
\* a fresh one with the caller's run id and the current time; no later step
\* changes them, and the sink and every file written carry them.
RunIdentityStep ==
    /\ (pc = "idle" /\ pc' = "f_loop" /\ fr'.path # NoPath)
       => LET c == ReadFile(fr'.path)
          IN  /\ IsFull(c)
              /\ fr'.start_epoch = c.epoch
              /\ fr'.loss = c.loss
              /\ fr'.start = c.start
              /\ fr'.run_id = c.id
    /\ (pc = "idle" /\ pc' = "f_loop" /\ fr'.path = NoPath)
       => /\ fr'.run_id \in CallerIds \ {None}
          /\ fr'.start = CurrentTs
          /\ fr'.start_epoch = 0
    /\ (fr.op = "fit" /\ fr'.op = "fit" /\ pc # "error" /\ pc' # "error")
       => /\ fr'.run_id = fr.run_id
          /\ fr'.start = fr.start
    /\ (fr'.op = "fit" /\ pc' \notin {"idle", "error"})
       => /\ obs'.sinkKey = fr'.run_id
          /\ obs'.n_writes <= Len(files')
          /\ \A i \in (Len(files') - obs'.n_writes + 1)..Len(files') :
                /\ saveArgs'[i].run_id = fr'.run_id
                /\ saveArgs'[i].start = fr'.start
                /\ fr'.run_id \in dirs'
                /\ files'[i] # Partial
                   => /\ files'[i].id = fr'.run_id
                      /\ files'[i].start = fr'.start

\* C21: a resumed fit takes its epoch counter, loss, start time and run id
\* from the checkpoint and not from the call; that run id (the caller's, in a
\* fresh fit) and that start time stay the same for the whole invocation: the
\* sink's location and every checkpoint it writes, periodic and final, carry
\* them.
C21_RunIdentityStable == [][RunIdentityStep]_vars

\* A resumed fit has written a periodic and a final checkpoint under the
\* checkpoint's run id and start time, which is not the time of the call.
C21_Witness ==
    /\ pc = "f_done"
    /\ fr.op = "fit"
    /\ fr.path # NoPath
    /\ obs.n_writes = 2
    /\ saveArgs[Len(files) - 1].kind = "periodic"
    /\ saveArgs[Len(files)].kind = "final"
    /\ \A i \in WrittenByThisFit : files[i].id = fr.run_id /\ files[i].start = fr.start
    /\ fr.start < Len(files) - 1

\* C22: inside fit, every evaluation pass starts on an empty confusion
\* matrix, and the scores emitted under the "train" or "val" tag come from a
\* matrix holding only the samples of that pass, whatever operations ran on
\* the instance before.
C22_PassStartsEmpty ==
    /\ (ses.op = "fit" /\ ses.pc = "pass" /\ ses.n = 0) => matrix = ZeroMatrix
    /\ ses.last.exact

\* C23: a fit whose optimizer is a tuple of optimizers is not stopped by the
\* optimizer's form: neither resuming from a checkpoint nor writing a
\* periodic or the final checkpoint raises because of it, so it completes its
\* epochs as a fit with a single optimizer does.
C23_TupleOptimizerPersists ==
    (eng.call.op = "fit" /\ eng.cfg.optimizer = "tuple") => eng.err # "AttributeError"
====
